---- MODULE Spec2Model ----
(***************************************************************************)
(* Discovery / queue / worker pipeline of landomo-usa-zillow.              *)
(*                                                                         *)
(* The Queue Engine (RedisQueue, src/redis-queue.ts) is imported by the    *)
(* coordinators and the worker but its source is not part of the tree; its *)
(* operations are modelled from the design document (section 4.1).  The    *)
(* worker (QuintoAndarWorker) and the coordinators are modelled from their *)
(* source, one action per await point.                                     *)
(***************************************************************************)
EXTENDS Integers, Sequences, FiniteSets, TLC

\* ------------------------------------------------------------- bounds
NumIds == 1
NumWorkers == 2
MaxPageLen == 2
MaxAdmitCalls == 3
NumLocations == 10
MaxFeedPages == 11
MaxClock == 14
MaxExtent == 5
MaxHalfDegrees == 2
MaxCells == 12
NumProbeIds == 2
MaxAgeSpread == 3

Ids == 1..NumIds
Workers == 1..NumWorkers

\* --------------------------------------------------------------- state
VARIABLES
  redis,            \* [Portals -> engine]: the Queue Store, one namespace per portal
  apiKey,           \* config.apiKey is set
  pc,               \* [Workers -> position of the worker in start/processListing]
  isRunning,        \* QuintoAndarWorker.isRunning
  closed,           \* the worker's queue connection was released by stop()
  cur,              \* id handed to processListing (0: none)
  property,         \* payload returned by fetchPropertyDetail
  emptyQueueCount,  \* local of start()
  counts,           \* processedCount, failedCount, changedCount, unchangedCount
  tracked,          \* the workers whose counters and calls are followed
  attempt,          \* what the current processListing call did so far
  streak,           \* consecutive empty results of popListingId seen by the worker
  requeues,         \* [Ids -> results of requeueWithRetry so far]
  recorded,         \* [Ids -> digest of the last payload whose change detection completed]
  admits,           \* [Portals -> [Ids -> admissions observed so far]]
  now,              \* the clock of the Queue Store, in hours
  coord,            \* the coordinator process: its run and its position in it
  grid,             \* one call of generateGrid: its arguments, loop variables and cells
  probe,            \* one call of findMissingProperties on a store of its own
  verifier,         \* the verifier process: the id it took and how far it is with it
  city,             \* a ZillowCoordinator: its totals and its call of discoverCity
  retry             \* one call of ZillowScraperV2.retryWithBackoff

\* ------------------------------------------------- program constants
WorkerMaxRetriesPlusOne == 3 + 1
WorkerMaxRetries == 3
maxEmptyChecks == 10
maxPages == 10
pageSize == 100
hoursThreshold == 12
ProgressEvery == 10

\* Coordinates are counted in quarters of a degree; the default cell size of
\* generateGrid is half a degree.
HalfDegree == 2
OneDegree == 2 * HalfDegree

\* Portal namespaces passed to the RedisQueue constructor.
ZillowPortal == "zillow"
WorkerPortal == "quintoandar"
QuintoAndarPortal == "quintoandar"
Portals == {ZillowPortal, WorkerPortal, QuintoAndarPortal}

\* ------------------------------------------------------------ payloads
\* A listing payload is a list of (field, value) pairs; the same content
\* can arrive with its fields in a different order.
NoSnapshot == {}
PayloadA == << <<"beds", 2>>, <<"price", 100>> >>
PayloadA2 == << <<"price", 100>>, <<"beds", 2>> >>
PayloadB == << <<"beds", 2>>, <<"price", 120>> >>
Payloads == {PayloadA, PayloadA2, PayloadB}
NoPayload == << >>

\* Deterministic digest of a payload: a function of its content, not of the
\* order of its fields.
Digest(payload) == {payload[i] : i \in DOMAIN payload}

\* ------------------------------------------------------- Queue Engine
\* One engine value per portal namespace:
\*   state[id], queue (the work queue), retryCount[id], snapshotHash[id],
\*   lastSeenAt[id] (hours), missing (the sub-queue of the Verifier).
EmptyEngine ==
  [state |-> [i \in Ids |-> "absent"],
   queue |-> << >>,
   retryCount |-> [i \in Ids |-> 0],
   snapshotHash |-> [i \in Ids |-> NoSnapshot],
   lastSeenAt |-> [i \in Ids |-> 0],
   missing |-> << >>]

\* admit: TRUE iff the id is not known yet (or is inactive).
addPropertyAlways(q, id) == TRUE
addPropertyAdmitsFailed(q, id) == q.state[id] \in {"absent", "inactive", "failed"}
addPropertyAdmits(q, id) == q.state[id] \in {"absent", "inactive"}

\* Every discovery of an id is recorded in lastSeenAt, admitted or not.
addPropertySeenKept(q, id) == q.lastSeenAt[id]
addPropertySeen(q, id) == now

addProperty(q, id) ==
  IF addPropertyAdmits(q, id)
  THEN [q EXCEPT !.state[id] = "discovered", !.queue = Append(@, id),
                 !.lastSeenAt[id] = now]
  ELSE [q EXCEPT !.lastSeenAt[id] = addPropertySeen(q, id)]

\* Batch admission: admit every id of the page in order.
RECURSIVE pushListingIds(_, _)
pushListingIds(q, ids) ==
  IF ids = << >> THEN q
  ELSE pushListingIds(addProperty(q, Head(ids)), Tail(ids))

\* Number of ids of the page that were admitted.
RECURSIVE pushListingIdsAdded(_, _)
pushListingIdsAdded(q, ids) ==
  IF ids = << >> THEN 0
  ELSE (IF addPropertyAdmits(q, Head(ids)) THEN 1 ELSE 0)
       + pushListingIdsAdded(addProperty(q, Head(ids)), Tail(ids))

\* claim: pop the head of the work queue and mark it processing.
popListingIdKeep(q) == [q EXCEPT !.state[Head(q.queue)] = "processing"]
popListingId(q) ==
  [q EXCEPT !.state[Head(q.queue)] = "processing", !.queue = Tail(@)]

isProcessed(q, id) == q.state[id] = "processed"

hasPropertyChangedAlways(q, id, payload) == TRUE
hasPropertyChanged(q, id, payload) == q.snapshotHash[id] # Digest(payload)

storePropertySnapshotNoop(q, id, payload) == q
storePropertySnapshot(q, id, payload) ==
  [q EXCEPT !.snapshotHash[id] = Digest(payload)]

markProcessed(q, id) ==
  [q EXCEPT !.state[id] = "processed", !.lastSeenAt[id] = now]

markFailed(q, id) == [q EXCEPT !.state[id] = "failed"]

requeueWithRetryOk(q, id, maxRetries) == q.retryCount[id] + 1 <= maxRetries

requeueWithRetry(q, id, maxRetries) ==
  IF requeueWithRetryOk(q, id, maxRetries)
  THEN [q EXCEPT !.retryCount[id] = @ + 1, !.state[id] = "queued",
                 !.queue = Append(@, id)]
  ELSE [q EXCEPT !.retryCount[id] = @ + 1, !.state[id] = "failed"]

\* findMissing at hour t: the known ids last seen before t - hours that are
\* not missing or inactive already.
findMissingAlways(q, t, hours) ==
  {i \in DOMAIN q.state : q.state[i] \notin {"absent", "missing", "inactive"}}
findMissingAt(q, t, hours) ==
  {i \in DOMAIN q.state :
     /\ q.state[i] \notin {"absent", "missing", "inactive"}
     /\ q.lastSeenAt[i] < t - hours}

\* pushToMissingQueue: the ids not missing already become missing and enter
\* the sub-queue of the Verifier, in ascending order.
RECURSIVE pushToMissingQueue(_, _)
pushToMissingQueue(q, ids) ==
  IF ids = {} THEN q
  ELSE LET i == CHOOSE j \in ids : \A k \in ids : j <= k
       IN pushToMissingQueue(
            IF q.state[i] = "missing" THEN q
            ELSE [q EXCEPT !.state[i] = "missing", !.missing = Append(@, i)],
            ids \ {i})

\* The Verifier's claim: the head of the missing sub-queue is taken off it.
popMissingId(q) == [q EXCEPT !.missing = Tail(@)]

\* A false negative: the id is discovered again and requeued into the work
\* queue, the re-fetch counting as a sighting.
restoreDiscovered(q, id) ==
  [q EXCEPT !.state[id] = "discovered", !.queue = Append(@, id),
            !.lastSeenAt[id] = now]

\* Confirmed absent.
markInactive(q, id) == [q EXCEPT !.state[id] = "inactive"]

\* Neither outcome: the id waits in the sub-queue for a later verification.
returnToMissingQueue(q, id) == [q EXCEPT !.missing = Append(@, id)]

vars == <<redis, apiKey, pc, isRunning, closed, cur, property, emptyQueueCount,
          counts, tracked, attempt, streak, requeues, recorded, admits,
          now, coord, grid, probe, verifier, city, retry>>

\* What the worker never touches.
sweepVars == <<now, coord, grid, probe, verifier, city, retry>>

NoId == 0

\* What one call of processListing did: the result of the fetch, the verdict
\* of hasPropertyChanged (and what the last completed change detection of the
\* id had recorded by then), the payloads delivered to the Sink, whether the
\* snapshot was replaced, the snapshot found at claim time, the calls made
\* and the one of the try block that raised, and how the call ended.
\* resumed: the loop came back to popListingId from its catch block.
NoAttempt ==
  [fetched |-> "none", changed |-> FALSE, detected |-> FALSE,
   prev |-> NoSnapshot, forwards |-> 0, updated |-> FALSE,
   before |-> NoSnapshot, calls |-> {}, raised |-> "none",
   outcome |-> "none", resumed |-> FALSE,
   sent |-> {}, resent |-> FALSE]

\* The record of a new call: the forwards delivered so far by the worker
\* (id and payload) are kept, and whether one of them was delivered twice.
NextAttempt(w) ==
  [NoAttempt EXCEPT !.sent = attempt[w].sent, !.resent = attempt[w].resent]

\* Sequences over Ids of length at most MaxPageLen: one page of a discovery feed.
RECURSIVE SeqsUpTo(_)
SeqsUpTo(n) ==
  IF n = 0 THEN {<< >>}
  ELSE SeqsUpTo(n - 1) \cup
       {Append(s, i) : s \in {t \in SeqsUpTo(n - 1) : Len(t) = n - 1}, i \in Ids}

PageLists == SeqsUpTo(MaxPageLen)

NoAdmits == [calls |-> 0, admitted |-> 0, entries |-> 0, late |-> 0]

\* No coordinator has been launched.  A run: the coordinator and strategy
\* (mode), its position (pc), the location of the loop (loc), the locations
\* attempted so far and whether one of them failed, the page requests issued
\* for the current location and the total its first page reported, the hour
\* each id was last handed to an answered admission of QuintoAndarCoordinator
\* and the hour of the last such admission that created it,
\* and the staleness sweep (done or not, what findMissingProperties returned,
\* what was pushed).
NoRun ==
  [mode |-> "none", pc |-> "idle", loc |-> 0, attempted |-> << >>,
   failed |-> FALSE, requests |-> 0, total |-> 0,
   seen |-> [i \in Ids |-> -1], first |-> [i \in Ids |-> -1],
   swept |-> FALSE, found |-> {}, pushed |-> {}]

\* generateGrid has not been called.
NoGrid == [pc |-> "idle"]

\* findMissingProperties has not been called.
NoProbe == [pc |-> "idle"]

\* The Verifier between two ids. fetched: what the re-fetch of the last id
\* answered; told: the inactive signals the Sink received for it; done: how
\* its verification ended.
NoVerifier ==
  [pc |-> "poll", cur |-> NoId, fetched |-> "none", told |-> 0, done |-> "none"]

\* retryWithBackoff has not been called. Of a call: the configuration, the
\* loop variable attempt and lastError, the invocations of the operation, the
\* errors it raised, the delays slept, and what the call returned or raised.
NoRetry ==
  [pc |-> "idle", retryAttempts |-> 0, retryDelay |-> 0, attempt |-> 0,
   lastError |-> "none", invoked |-> 0, errors |-> << >>, waits |-> << >>,
   result |-> "none", raised |-> "none"]

\* A ZillowCoordinator that has not called discoverCity. totalDiscovered and
\* totalQueued are its fields, page and totalForCity the locals of the call
\* and result what it returned. Of the call are also kept: the pages
\* requested, why the loop ended, the addProperty calls issued and those
\* that answered admitted=true (created; createdAll over all calls), the
\* listings with a zpid on the pages fetched (listed) and those of them that
\* were handed to no addProperty call (owed).
NoCity ==
  [pc |-> "idle", calls |-> 0, totalDiscovered |-> 0, totalQueued |-> 0,
   page |-> 0, totalForCity |-> 0, result |-> 0,
   requested |-> << >>, stop |-> "none", listed |-> 0, admissions |-> 0,
   created |-> 0, createdAll |-> 0, owed |-> 0]

\* The workers before they are started.
InitWorkers ==
  /\ apiKey \in BOOLEAN
  /\ pc = [w \in Workers |-> "init"]
  /\ isRunning = [w \in Workers |-> FALSE]
  /\ closed = [w \in Workers |-> FALSE]
  /\ cur = [w \in Workers |-> NoId]
  /\ property = [w \in Workers |-> NoPayload]
  /\ emptyQueueCount = [w \in Workers |-> 0]
  /\ counts = [w \in Workers |->
                 [processedCount |-> 0, failedCount |-> 0,
                  changedCount |-> 0, unchangedCount |-> 0]]
  /\ attempt = [w \in Workers |-> NoAttempt]
  /\ streak = [w \in Workers |-> 0]
  /\ requeues = [i \in Ids |-> << >>]
  /\ recorded = [i \in Ids |-> NoSnapshot]
  /\ admits = [p \in Portals |-> [i \in Ids |-> NoAdmits]]

InitIdle ==
  /\ redis = [p \in Portals |-> EmptyEngine]
  /\ verifier = NoVerifier
  /\ city = NoCity
  /\ InitWorkers

InitStore ==
  /\ InitIdle
  /\ retry = NoRetry

InitCommon ==
  /\ InitStore
  /\ now = 0
  /\ coord = NoRun
  /\ grid = NoGrid
  /\ probe = NoProbe

\* Every worker is launched; none of them is followed.
Init == InitCommon /\ tracked = {}

\* One worker is launched and it is followed.
InitOneWorker == InitCommon /\ tracked = {1}

\* counts with one field of worker w incremented.
Incremented(w, field) ==
  IF w \in tracked THEN [counts EXCEPT ![w][field] = @ + 1] ELSE counts

\* The record a of the current call, kept for the workers that are followed.
Followed(w, a) == IF w \in tracked THEN a ELSE attempt

\* The queue of the namespace the worker was constructed with.
Q == redis[WorkerPortal]

\* A Queue Store call of worker w either completes or raises a store error;
\* on a released connection it can only raise.
StoreFaults(w) == IF closed[w] THEN {TRUE} ELSE BOOLEAN

\* ------------------------------------------------------- discovery
Occurrences(s, i) == Cardinality({k \in DOMAIN s : s[k] = i})

\* How many of the admissions of id i made by pushListingIds(q, ids) were
\* answered "admitted".
RECURSIVE AdmittedIn(_, _, _)
AdmittedIn(q, ids, i) ==
  IF ids = << >> THEN 0
  ELSE (IF Head(ids) = i /\ addPropertyAdmits(q, i) THEN 1 ELSE 0)
       + AdmittedIn(addProperty(q, Head(ids)), Tail(ids), i)

\* The admissions of one page, added to what was observed before on portal p.
Observed(p, ids) ==
  [admits EXCEPT ![p] = [i \in Ids |->
     [calls |-> @[i].calls + Occurrences(ids, i),
      admitted |-> @[i].admitted + AdmittedIn(redis[p], ids, i),
      entries |-> @[i].entries
                    + Occurrences(pushListingIds(redis[p], ids).queue, i)
                    - Occurrences(redis[p].queue, i),
      late |-> @[i].late
                 + (IF redis[p].state[i] \in {"processed", "failed"}
                    THEN Occurrences(ids, i) ELSE 0)]]]

WithinAdmitCalls(p, ids) ==
  \A i \in Ids : admits[p][i].calls + Occurrences(ids, i) <= MaxAdmitCalls

\* QuintoAndarCoordinator.discoverCity / discoverGeoGrid: one page of ids
\* pushed to the queue.
QuintoAndarPushPage ==
  /\ \E ids \in PageLists \ {<< >>} :
       redis' = [redis EXCEPT ![QuintoAndarPortal] = pushListingIds(@, ids)]
  /\ UNCHANGED <<apiKey, pc, isRunning, closed, cur, property, emptyQueueCount,
                 counts, attempt, streak, requeues, tracked, recorded, admits>>
  /\ UNCHANGED sweepVars

\* The same step with its admissions observed.
QuintoAndarPushPageObserved ==
  /\ \E ids \in PageLists \ {<< >>} :
       /\ WithinAdmitCalls(QuintoAndarPortal, ids)
       /\ redis' = [redis EXCEPT ![QuintoAndarPortal] = pushListingIds(@, ids)]
       /\ admits' = Observed(QuintoAndarPortal, ids)
  /\ UNCHANGED <<apiKey, pc, isRunning, closed, cur, property, emptyQueueCount,
                 counts, attempt, streak, requeues, tracked, recorded>>
  /\ UNCHANGED sweepVars

\* ZillowCoordinator.discoverCity, body of the loop over the listings of a
\* page: a listing with a zpid is added to the queue, one without is skipped.
ZillowQueueListing ==
  /\ \E zpid \in Ids \cup {NoId} :
       IF zpid = NoId
       THEN UNCHANGED <<redis, admits>>
       ELSE /\ WithinAdmitCalls(ZillowPortal, <<zpid>>)
            /\ redis' = [redis EXCEPT ![ZillowPortal] = addProperty(@, zpid)]
            /\ admits' = Observed(ZillowPortal, <<zpid>>)
  /\ UNCHANGED <<apiKey, pc, isRunning, closed, cur, property, emptyQueueCount,
                 counts, attempt, streak, requeues, tracked, recorded>>
  /\ UNCHANGED sweepVars

\* ----------------------------------------------------- the coordinators
Locations == 1..NumLocations

\* What the discovery feed can report as the total of a location.
FeedTotals == {0, 1, pageSize, pageSize + 1, MaxFeedPages * pageSize}

\* One page of Zillow search results: listings with a zpid or without one.
RECURSIVE ListingsUpTo(_)
ListingsUpTo(n) ==
  IF n = 0 THEN {<< >>}
  ELSE ListingsUpTo(n - 1) \cup
       {Append(s, z) : s \in {t \in ListingsUpTo(n - 1) : Len(t) = n - 1},
                       z \in Ids \cup {NoId}}

ZillowPages == ListingsUpTo(MaxPageLen)

\* ZillowCoordinator.discoverCity, the loop over the listings of a page.
RECURSIVE addListings(_, _)
addListings(q, listings) ==
  IF listings = << >> THEN q
  ELSE addListings(IF Head(listings) = NoId THEN q
                   ELSE addProperty(q, Head(listings)),
                   Tail(listings))

\* The ids of a page that were handed to an admission.
Admitted(ids) == {ids[k] : k \in DOMAIN ids}

SeenNow(ids) == [i \in Ids |-> IF i \in ids THEN now ELSE coord.seen[i]]

\* The ids of a page that its admission created.
FirstNow(q, ids) ==
  [i \in Ids |-> IF i \in ids /\ addPropertyAdmits(q, i) THEN now
                 ELSE coord.first[i]]

\* Where a run continues when the discovery of a location raised: the catch
\* block returns and the loop goes on.
LocationErrorAborts == "aborted"
AfterLocationError == "afterLocation"

workerVars ==
  <<apiKey, pc, isRunning, closed, cur, property, emptyQueueCount, counts,
    tracked, attempt, streak, requeues, recorded, admits, verifier, city, retry>>

\* main(): a coordinator is launched with a strategy, also again after a
\* run has ended.
CoordLaunch ==
  /\ coord.pc \in {"idle", "done", "aborted"}
  /\ \E mode \in {"zillow", "cities", "geo"} :
       coord' = [NoRun EXCEPT !.mode = mode, !.pc = "loop", !.loc = 1,
                              !.seen = coord.seen, !.first = coord.first]
  /\ UNCHANGED <<redis, now, grid, probe>>
  /\ UNCHANGED workerVars

\* discoverAllCities / discoverGeoGrid: the head of the loop over the
\* locations, and the call of discoverCity.
CoordLoop ==
  /\ coord.pc = "loop"
  /\ IF coord.loc > NumLocations
     THEN coord' = [coord EXCEPT !.pc =
                      IF coord.mode = "zillow" THEN "done" ELSE "finalStats"]
     ELSE coord' = [coord EXCEPT
                      !.attempted = Append(@, coord.loc),
                      !.requests = 0, !.total = 0,
                      !.pc = IF coord.mode = "zillow" THEN "zpage"
                             ELSE "firstPage"]
  /\ UNCHANGED <<redis, now, grid, probe>>
  /\ UNCHANGED workerVars

\* ZillowCoordinator.discoverCity: one turn of while (page <= maxPages),
\* page = requests + 1.
ZillowPage ==
  /\ coord.pc = "zpage"
  /\ IF coord.requests + 1 > maxPages
     THEN /\ coord' = [coord EXCEPT !.pc = "afterLocation"]
          /\ UNCHANGED redis
     ELSE \E kind \in {"ok", "searchError", "storeError"},
             listings \in ZillowPages :
       IF kind = "searchError"
       THEN /\ coord' = [coord EXCEPT !.pc = AfterLocationError,
                                      !.failed = TRUE]
            /\ UNCHANGED redis
       ELSE IF listings = << >>
       THEN /\ coord' = [coord EXCEPT !.pc = "afterLocation",
                                      !.requests = @ + 1]
            /\ UNCHANGED redis
       ELSE IF kind = "storeError"
       THEN \E k \in 0..(Len(listings) - 1) :
              /\ redis' = [redis EXCEPT ![ZillowPortal] =
                             addListings(@, SubSeq(listings, 1, k))]
              /\ coord' = [coord EXCEPT
                             !.pc = AfterLocationError, !.failed = TRUE,
                             !.requests = @ + 1]
       ELSE /\ redis' = [redis EXCEPT ![ZillowPortal] = addListings(@, listings)]
            /\ coord' = [coord EXCEPT !.requests = @ + 1]
  /\ UNCHANGED <<now, grid, probe>>
  /\ UNCHANGED workerVars

\* QuintoAndarCoordinator.discoverCity / discoverGeoGrid: the first page.
QuintoAndarFirstPage ==
  /\ coord.pc = "firstPage"
  /\ \E kind \in {"ok", "fetchError", "storeError"},
        ids \in PageLists, total \in FeedTotals :
       IF kind = "fetchError"
       THEN /\ coord' = [coord EXCEPT !.pc = AfterLocationError,
                                      !.failed = TRUE]
            /\ UNCHANGED redis
       ELSE IF total = 0
       THEN /\ coord' = [coord EXCEPT !.pc = "afterLocation",
                                      !.requests = @ + 1]
            /\ UNCHANGED redis
       ELSE IF kind = "storeError"
       THEN /\ coord' = [coord EXCEPT !.pc = AfterLocationError,
                                      !.failed = TRUE, !.requests = @ + 1]
            /\ UNCHANGED redis
       ELSE /\ redis' = [redis EXCEPT ![QuintoAndarPortal] =
                           pushListingIds(@, ids)]
            /\ coord' = [coord EXCEPT
                           !.pc = "nextPage", !.requests = @ + 1,
                           !.total = total,
                           !.seen = SeenNow(Admitted(ids)),
                           !.first = FirstNow(redis[QuintoAndarPortal],
                                              Admitted(ids))]
  /\ UNCHANGED <<now, grid, probe>>
  /\ UNCHANGED workerVars

\* QuintoAndarCoordinator.discoverCity / discoverGeoGrid: one turn of
\* while (offset < firstPage.total), offset = requests * pageSize.
QuintoAndarNextPage ==
  /\ coord.pc = "nextPage"
  /\ IF ~(coord.requests * pageSize < coord.total)
     THEN /\ coord' = [coord EXCEPT !.pc = "afterLocation"]
          /\ UNCHANGED redis
     ELSE \E kind \in {"ok", "fetchError", "storeError"}, ids \in PageLists :
       IF kind = "fetchError"
       THEN /\ coord' = [coord EXCEPT !.pc = AfterLocationError,
                                      !.failed = TRUE]
            /\ UNCHANGED redis
       ELSE IF kind = "storeError"
       THEN /\ coord' = [coord EXCEPT !.pc = AfterLocationError,
                                      !.failed = TRUE, !.requests = @ + 1]
            /\ UNCHANGED redis
       ELSE /\ redis' = [redis EXCEPT ![QuintoAndarPortal] =
                           pushListingIds(@, ids)]
            /\ coord' = [coord EXCEPT
                           !.requests = @ + 1,
                           !.seen = SeenNow(Admitted(ids)),
                           !.first = FirstNow(redis[QuintoAndarPortal],
                                              Admitted(ids))]
  /\ UNCHANGED <<now, grid, probe>>
  /\ UNCHANGED workerVars

\* The rest of the loop body after the location: in discoverAllCities of
\* QuintoAndarCoordinator, getStats() at every tenth city (outside any try);
\* then the delay between locations.
CoordAfterLocation ==
  /\ coord.pc = "afterLocation"
  /\ \E fault \in BOOLEAN :
       IF fault /\ coord.mode = "cities" /\ coord.loc % ProgressEvery = 0
       THEN coord' = [coord EXCEPT !.pc = "aborted"]
       ELSE coord' = [coord EXCEPT !.pc = "loop", !.loc = @ + 1]
  /\ UNCHANGED <<redis, now, grid, probe>>
  /\ UNCHANGED workerVars

\* QuintoAndarCoordinator: getStats() after the loop; discoverAllCities goes
\* on to identifyMissingProperties, discoverGeoGrid returns.
CoordFinalStats ==
  /\ coord.pc = "finalStats"
  /\ \E fault \in BOOLEAN :
       IF fault
       THEN coord' = [coord EXCEPT !.pc = "aborted"]
       ELSE coord' = [coord EXCEPT !.pc =
                        IF coord.mode = "cities" THEN "findMissing" ELSE "done"]
  /\ UNCHANGED <<redis, now, grid, probe>>
  /\ UNCHANGED workerVars

\* identifyMissingProperties: findMissingProperties(hoursThreshold); return
\* when nothing is missing.
CoordFindMissing ==
  /\ coord.pc = "findMissing"
  /\ \E fault \in BOOLEAN :
       IF fault
       THEN coord' = [coord EXCEPT !.pc = "aborted"]
       ELSE coord' = [coord EXCEPT
              !.swept = TRUE,
              !.found = findMissingAt(redis[QuintoAndarPortal], now, hoursThreshold),
              !.pc = IF findMissingAt(redis[QuintoAndarPortal], now,
                                      hoursThreshold) = {}
                     THEN "done" ELSE "pushMissing"]
  /\ UNCHANGED <<redis, now, grid, probe>>
  /\ UNCHANGED workerVars

\* identifyMissingProperties: pushToMissingQueue(missingIds).
CoordPushMissing ==
  /\ coord.pc = "pushMissing"
  /\ \E fault \in BOOLEAN :
       IF fault
       THEN /\ coord' = [coord EXCEPT !.pc = "aborted"]
            /\ UNCHANGED redis
       ELSE /\ redis' = [redis EXCEPT ![QuintoAndarPortal] =
                           pushToMissingQueue(@, coord.found)]
            /\ coord' = [coord EXCEPT !.pushed = coord.found, !.pc = "done"]
  /\ UNCHANGED <<now, grid, probe>>
  /\ UNCHANGED workerVars

\* An hour passes.
Wait(hours) ==
  /\ now + hours <= MaxClock
  /\ now' = now + hours
  /\ UNCHANGED <<redis, coord, grid, probe>>
  /\ UNCHANGED workerVars

Tick == Wait(1)

\* ------------------------------------------------------- generateGrid
\* The cell sizes a call can be given: GRID_SIZE is read from the
\* environment and is not validated.
GridSizes == {HalfDegree * k : k \in 0..MaxHalfDegrees}

\* The bounding boxes, where the code reads the constant BRAZIL_BOUNDS.
Boxes ==
  {[south |-> s, west |-> w, north |-> s + h, east |-> w + l] :
     s \in {-1, 0}, w \in {-1, 0}, h \in 1..MaxExtent, l \in 1..MaxExtent}

\* Math.ceil(a / b) for b > 0.
Ceil(a, b) == (a + b - 1) \div b

\* totalCells; with a cell size of 0 the quotient is Infinity, carried by no
\* returned cell.
TotalCells(b, g) ==
  IF g = 0 THEN 0
  ELSE Ceil(b.north - b.south, g) * Ceil(b.east - b.west, g)

\* The cell pushed at (lat, lng).
GridCellUncentred(lat, lng, g, index, total) ==
  [lat |-> lat, lng |-> lng,
   viewport |-> [north |-> lat + g, south |-> lat,
                 east |-> lng + g, west |-> lng],
   index |-> index, total |-> total]
GridCell(lat, lng, g, index, total) ==
  [lat |-> lat + (g \div 2), lng |-> lng + (g \div 2),
   viewport |-> [north |-> lat + g, south |-> lat,
                 east |-> lng + g, west |-> lng],
   index |-> index, total |-> total]

\* A call of generateGrid at its first statement.
GridCall(b, g) ==
  [pc |-> "outer", gridSize |-> g, bounds |-> b,
   lat |-> b.south, lng |-> b.west, cells |-> << >>, index |-> 0,
   calls |-> 1, prev |-> << >>]

GridCalls == {GridCall(b, g) : b \in Boxes, g \in GridSizes}

\* for (let lat = south; lat < north; ...): the test of the outer loop.
GridOuter ==
  /\ grid.pc = "outer"
  /\ grid' = IF grid.lat < grid.bounds.north
             THEN [grid EXCEPT !.pc = "inner", !.lng = grid.bounds.west]
             ELSE [grid EXCEPT !.pc = "returned"]
  /\ UNCHANGED <<redis, now, coord, probe>>
  /\ UNCHANGED workerVars

\* for (let lng = west; lng < east; lng += gridSize): one turn of the inner
\* loop, or its end and lat += gridSize.
GridInner ==
  /\ grid.pc = "inner"
  /\ IF grid.lng < grid.bounds.east
     THEN /\ Len(grid.cells) < MaxCells
          /\ grid' = [grid EXCEPT
                 !.cells = Append(@, GridCell(grid.lat, grid.lng, grid.gridSize,
                                              grid.index + 1,
                                              TotalCells(grid.bounds,
                                                         grid.gridSize))),
                 !.index = @ + 1,
                 !.lng = @ + grid.gridSize]
     ELSE grid' = [grid EXCEPT !.pc = "outer", !.lat = @ + grid.gridSize]
  /\ UNCHANGED <<redis, now, coord, probe>>
  /\ UNCHANGED workerVars

\* generateGrid is called once more with the same cell size.
GridAgain ==
  /\ grid.pc = "returned"
  /\ grid.calls = 1
  /\ grid' = [GridCall(grid.bounds, grid.gridSize) EXCEPT
                !.calls = 2, !.prev = grid.cells]
  /\ UNCHANGED <<redis, now, coord, probe>>
  /\ UNCHANGED workerVars

\* ----------------------------------------------- findMissingProperties
\* Stores on which findMissingProperties is called: every id known, in any
\* state, last seen between MaxClock - MaxAgeSpread and MaxClock hours ago.
ProbeIds == 1..NumProbeIds

KnownStates ==
  {"discovered", "queued", "processing", "processed", "failed", "missing",
   "inactive"}

ProbeStores ==
  {[state |-> st, lastSeenAt |-> ls] :
     st \in [ProbeIds -> KnownStates], ls \in [ProbeIds -> 0..MaxAgeSpread]}

\* The thresholds of a call: the default of identifyMissingProperties, and
\* one hour more.
Thresholds == {hoursThreshold, hoursThreshold + 1}

ProbeCalls ==
  {[pc |-> "call", store |-> q, hours |-> h, result |-> {}] :
     q \in ProbeStores, h \in Thresholds}

\* identifyMissingProperties: findMissingProperties(hoursThreshold) returns.
FindMissingProperties ==
  /\ probe.pc = "call"
  /\ probe' = [probe EXCEPT
                 !.pc = "returned",
                 !.result = findMissingAt(probe.store, now, probe.hours)]
  /\ UNCHANGED <<redis, now, coord, grid>>
  /\ UNCHANGED workerVars

\* ---------------------------------------------------------- the worker
\* Positions inside processListing: the worker holds cur[w].
ProcessingPcs ==
  {"isProcessed", "fetch", "markFailed", "hasChanged", "send", "store",
   "markProcessed", "requeue"}

\* Where an error raised inside the try block of processListing continues:
\* its catch block.
NoCatchBlock == "backoff"
CatchBlock == "requeue"

\* Where processListing continues when fetchPropertyDetail returned null.
AfterNotFoundRetry == "requeue"
NotFoundReturns == "delay"
AfterNotFound == "markFailed"

\* Where processListing continues when sendToCoreService returned.
AfterSendSkipStore == "markProcessed"
AfterSend == "store"

\* Where processListing continues when sendToCoreService raised: its catch
\* block.
SendErrorSwallowed == "store"
AfterSendError == CatchBlock

\* Where start() continues when popListingId raised: its catch block.
ClaimErrorEndsLoop == "stopped"
AfterClaimError == "backoff"

\* Where the worker continues when requeueWithRetry returned: processListing
\* returns false and the loop sleeps.
RetryInPlace == "isProcessed"
AfterRequeue == "delay"

\* start(): the condition of while (this.isRunning).
LoopConditionIgnored(w) == TRUE
LoopCondition(w) == isRunning[w]

\* start(): the empty count after popListingId returned an id.
EmptyCountKept(w) == emptyQueueCount
EmptyCountAfterId(w) == [emptyQueueCount EXCEPT ![w] = 0]

Called(w, name) == [attempt EXCEPT ![w].calls = @ \cup {name}]
Raised(w, name) ==
  [attempt EXCEPT ![w].calls = @ \cup {name}, ![w].raised = name]

\* main(): initialize() and the first statement of start().
Start(w) ==
  /\ pc[w] = "init"
  /\ pc' = [pc EXCEPT ![w] = "poll"]
  /\ isRunning' = [isRunning EXCEPT ![w] = TRUE]
  /\ UNCHANGED <<redis, apiKey, closed, cur, property, emptyQueueCount, counts,
                 attempt, streak, requeues, tracked, recorded, admits>>
  /\ UNCHANGED sweepVars

\* start(): the loop condition and popListingId(5).
Poll(w) ==
  /\ pc[w] = "poll"
  /\ IF ~LoopCondition(w)
     THEN /\ pc' = [pc EXCEPT ![w] = "stopped"]
          /\ UNCHANGED <<redis, cur, emptyQueueCount, attempt, streak>>
     ELSE \E fault \in StoreFaults(w) :
       IF fault
       THEN /\ pc' = [pc EXCEPT ![w] = AfterClaimError]
            /\ UNCHANGED <<redis, cur, emptyQueueCount, attempt, streak>>
       ELSE IF Q.queue = << >>
       THEN /\ emptyQueueCount' = [emptyQueueCount EXCEPT ![w] = @ + 1]
            /\ streak' = [streak EXCEPT ![w] = @ + 1]
            /\ pc' = [pc EXCEPT ![w] =
                        IF emptyQueueCount[w] + 1 >= maxEmptyChecks
                        THEN "stopped" ELSE "stats"]
            /\ UNCHANGED <<redis, cur, attempt>>
       ELSE /\ redis' = [redis EXCEPT ![WorkerPortal] = popListingId(@)]
            /\ cur' = [cur EXCEPT ![w] = Head(Q.queue)]
            /\ emptyQueueCount' = EmptyCountAfterId(w)
            /\ streak' = [streak EXCEPT ![w] = 0]
            /\ attempt' = Followed(w, [attempt EXCEPT ![w] =
                 [NextAttempt(w) EXCEPT !.before = Q.snapshotHash[Head(Q.queue)],
                                   !.resumed = attempt[w].resumed]])
            /\ pc' = [pc EXCEPT ![w] = "isProcessed"]
  /\ UNCHANGED <<apiKey, isRunning, closed, property, counts, requeues, tracked, recorded, admits>>
  /\ UNCHANGED sweepVars

\* start(): getStats() after an empty result, then continue.
Stats(w) ==
  /\ pc[w] = "stats"
  /\ \E fault \in StoreFaults(w) :
       pc' = [pc EXCEPT ![w] = IF fault THEN "backoff" ELSE "poll"]
  /\ attempt' = Followed(w, [attempt EXCEPT ![w] = NextAttempt(w)])
  /\ UNCHANGED <<redis, apiKey, isRunning, closed, cur, property,
                 emptyQueueCount, counts, streak, requeues, tracked, recorded,
                 admits>>
  /\ UNCHANGED sweepVars

\* processListing: isProcessed(id).
\* processListing returns at once when the id is processed already.
SkipIgnored == "fetch"
AfterSkip == "delay"

IsProcessed(w) ==
  /\ pc[w] = "isProcessed"
  /\ \E fault \in StoreFaults(w) :
       IF fault
       THEN /\ pc' = [pc EXCEPT ![w] = CatchBlock]
            /\ attempt' = Followed(w, Raised(w, "isProcessed"))
       ELSE IF isProcessed(Q, cur[w])
       THEN /\ pc' = [pc EXCEPT ![w] = AfterSkip]
            /\ attempt' = Followed(w, [Called(w, "isProcessed") EXCEPT ![w].outcome = "skipped"])
       ELSE /\ pc' = [pc EXCEPT ![w] = "fetch"]
            /\ attempt' = Followed(w, Called(w, "isProcessed"))
  /\ UNCHANGED <<redis, apiKey, isRunning, closed, cur, property,
                 emptyQueueCount, counts, streak, requeues, tracked, recorded, admits>>
  /\ UNCHANGED sweepVars

\* processListing: fetchPropertyDetail(id) returns a payload, null, or throws.
Fetch(w) ==
  /\ pc[w] = "fetch"
  /\ \E kind \in {"ok", "notfound", "error"}, r \in Payloads :
       IF kind = "error"
       THEN /\ pc' = [pc EXCEPT ![w] = CatchBlock]
            /\ attempt' = Followed(w, [Raised(w, "fetchPropertyDetail") EXCEPT ![w].fetched = "error"])
            /\ UNCHANGED property
       ELSE IF kind = "notfound"
       THEN /\ pc' = [pc EXCEPT ![w] = AfterNotFound]
            /\ attempt' = Followed(w, [Called(w, "fetchPropertyDetail") EXCEPT ![w].fetched = "notfound"])
            /\ UNCHANGED property
       ELSE /\ pc' = [pc EXCEPT ![w] = "hasChanged"]
            /\ attempt' = Followed(w, [Called(w, "fetchPropertyDetail") EXCEPT ![w].fetched = "ok"])
            /\ property' = [property EXCEPT ![w] = r]
  /\ UNCHANGED <<redis, apiKey, isRunning, closed, cur, emptyQueueCount,
                 counts, streak, requeues, tracked, recorded, admits>>
  /\ UNCHANGED sweepVars

\* processListing: markFailed(id, 'Not found'); return false.
MarkFailed(w) ==
  /\ pc[w] = "markFailed"
  /\ \E fault \in StoreFaults(w) :
       IF fault
       THEN /\ pc' = [pc EXCEPT ![w] = CatchBlock]
            /\ attempt' = Followed(w, Raised(w, "markFailed"))
            /\ UNCHANGED redis
       ELSE /\ redis' = [redis EXCEPT ![WorkerPortal] = markFailed(@, cur[w])]
            /\ pc' = [pc EXCEPT ![w] = "delay"]
            /\ attempt' = Followed(w, [Called(w, "markFailed") EXCEPT ![w].outcome = "notfound"])
  /\ UNCHANGED <<apiKey, isRunning, closed, cur, property, emptyQueueCount,
                 counts, streak, requeues, tracked, recorded, admits>>
  /\ UNCHANGED sweepVars

\* processListing: hasPropertyChanged(id, rawData), the unchanged branch, and
\* in the changed branch transformToStandard and the test of config.apiKey.
HasChanged(w) ==
  /\ pc[w] = "hasChanged"
  /\ \E fault \in StoreFaults(w) :
       IF fault
       THEN /\ pc' = [pc EXCEPT ![w] = CatchBlock]
            /\ attempt' = Followed(w, Raised(w, "hasPropertyChanged"))
            /\ UNCHANGED <<counts, recorded>>
       ELSE IF ~hasPropertyChanged(Q, cur[w], property[w])
       THEN /\ counts' = Incremented(w, "unchangedCount")
            /\ pc' = [pc EXCEPT ![w] = "markProcessed"]
            /\ attempt' = Followed(w, [Called(w, "hasPropertyChanged") EXCEPT
                             ![w].detected = TRUE, ![w].changed = FALSE,
                             ![w].prev = recorded[cur[w]]])
            /\ recorded' = [recorded EXCEPT ![cur[w]] = Digest(property[w])]
       ELSE /\ pc' = [pc EXCEPT ![w] = IF apiKey THEN "send" ELSE "store"]
            /\ attempt' = Followed(w, [Called(w, "hasPropertyChanged") EXCEPT
                             ![w].detected = TRUE, ![w].changed = TRUE,
                             ![w].prev = recorded[cur[w]]])
            /\ UNCHANGED <<counts, recorded>>
  /\ UNCHANGED <<redis, apiKey, isRunning, closed, cur, property,
                 emptyQueueCount, streak, requeues, tracked, admits>>
  /\ UNCHANGED sweepVars

\* processListing: sendToCoreService(...) delivers the payload or throws.
Send(w) ==
  /\ pc[w] = "send"
  /\ \E delivered \in BOOLEAN :
       IF delivered
       THEN /\ pc' = [pc EXCEPT ![w] = AfterSend]
            /\ attempt' = Followed(w, [Called(w, "sendToCoreService") EXCEPT
                             ![w].forwards = @ + 1,
                             ![w].sent = @ \cup {<<cur[w], property[w]>>},
                             ![w].resent =
                               @ \/ <<cur[w], property[w]>> \in attempt[w].sent])
       ELSE /\ pc' = [pc EXCEPT ![w] = AfterSendError]
            /\ attempt' = Followed(w, Raised(w, "sendToCoreService"))
  /\ UNCHANGED <<redis, apiKey, isRunning, closed, cur, property,
                 emptyQueueCount, counts, streak, requeues, tracked, recorded, admits>>
  /\ UNCHANGED sweepVars

\* processListing: storePropertySnapshot(id, rawData); changedCount++.
Store(w) ==
  /\ pc[w] = "store"
  /\ \E fault \in StoreFaults(w) :
       IF fault
       THEN /\ pc' = [pc EXCEPT ![w] = CatchBlock]
            /\ attempt' = Followed(w, Raised(w, "storePropertySnapshot"))
            /\ UNCHANGED <<redis, counts, recorded>>
       ELSE /\ redis' = [redis EXCEPT ![WorkerPortal] =
                           storePropertySnapshot(@, cur[w], property[w])]
            /\ counts' = Incremented(w, "changedCount")
            /\ pc' = [pc EXCEPT ![w] = "markProcessed"]
            /\ attempt' = Followed(w, [Called(w, "storePropertySnapshot") EXCEPT
                 ![w].updated =
                    storePropertySnapshot(Q, cur[w], property[w]).snapshotHash[cur[w]]
                      # Q.snapshotHash[cur[w]]])
            /\ recorded' = [recorded EXCEPT ![cur[w]] = Digest(property[w])]
  /\ UNCHANGED <<apiKey, isRunning, closed, cur, property, emptyQueueCount,
                 streak, requeues, tracked, admits>>
  /\ UNCHANGED sweepVars

\* processListing: markProcessed(id); processedCount++; return true.
MarkProcessed(w) ==
  /\ pc[w] = "markProcessed"
  /\ \E fault \in StoreFaults(w) :
       IF fault
       THEN /\ pc' = [pc EXCEPT ![w] = CatchBlock]
            /\ attempt' = Followed(w, Raised(w, "markProcessed"))
            /\ UNCHANGED <<redis, counts>>
       ELSE /\ redis' = [redis EXCEPT ![WorkerPortal] = markProcessed(@, cur[w])]
            /\ counts' = Incremented(w, "processedCount")
            /\ pc' = [pc EXCEPT ![w] = "delay"]
            /\ attempt' = Followed(w, [Called(w, "markProcessed") EXCEPT ![w].outcome = "processed"])
  /\ UNCHANGED <<apiKey, isRunning, closed, cur, property, emptyQueueCount,
                 streak, requeues, tracked, recorded, admits>>
  /\ UNCHANGED sweepVars

\* processListing, catch block: requeueWithRetry(id, 3); failedCount++ when
\* it answers false; return false.  An error of requeueWithRetry itself
\* leaves processListing and reaches the catch block of start().
Requeue(w) ==
  /\ pc[w] = "requeue"
  /\ \E fault \in StoreFaults(w) :
       IF fault
       THEN /\ pc' = [pc EXCEPT ![w] = "backoff"]
            /\ attempt' = Followed(w, [Called(w, "requeueWithRetry") EXCEPT ![w].outcome = "escaped"])
            /\ UNCHANGED <<redis, counts, requeues>>
       ELSE /\ redis' = [redis EXCEPT ![WorkerPortal] =
                           requeueWithRetry(@, cur[w], WorkerMaxRetries)]
            /\ requeues' = [requeues EXCEPT ![cur[w]] =
                 Append(@, requeueWithRetryOk(Q, cur[w], WorkerMaxRetries))]
            /\ counts' = IF requeueWithRetryOk(Q, cur[w], WorkerMaxRetries)
                         THEN counts ELSE Incremented(w, "failedCount")
            /\ pc' = [pc EXCEPT ![w] = AfterRequeue]
            /\ attempt' = Followed(w, [Called(w, "requeueWithRetry") EXCEPT ![w].outcome =
                 IF requeueWithRetryOk(Q, cur[w], WorkerMaxRetries)
                 THEN "requeued" ELSE "exhausted"])
  /\ UNCHANGED <<apiKey, isRunning, closed, cur, property, emptyQueueCount, streak,
                 tracked, recorded, admits>>
  /\ UNCHANGED sweepVars

\* start(): randomDelay after processListing returned, back to the loop head.
Delay(w) ==
  /\ pc[w] = "delay"
  /\ pc' = [pc EXCEPT ![w] = "poll"]
  /\ cur' = [cur EXCEPT ![w] = NoId]
  /\ property' = [property EXCEPT ![w] = NoPayload]
  /\ attempt' = Followed(w, [attempt EXCEPT ![w] = NextAttempt(w)])
  /\ UNCHANGED <<redis, apiKey, isRunning, closed, emptyQueueCount, counts,
                 streak, requeues, tracked, recorded, admits>>
  /\ UNCHANGED sweepVars

\* A catch block of start() that leaves the loop.
BackoffEndsLoop(w) ==
  /\ pc[w] = "backoff"
  /\ pc' = [pc EXCEPT ![w] = "stopped"]
  /\ UNCHANGED <<redis, apiKey, isRunning, closed, cur, property,
                 emptyQueueCount, counts, attempt, streak, requeues, tracked,
                 recorded, admits>>
  /\ UNCHANGED sweepVars

\* start(), catch block: log, randomDelay(5000, 10000), back to the loop head.
Backoff(w) ==
  /\ pc[w] = "backoff"
  /\ pc' = [pc EXCEPT ![w] = "poll"]
  /\ cur' = [cur EXCEPT ![w] = NoId]
  /\ property' = [property EXCEPT ![w] = NoPayload]
  /\ attempt' = Followed(w, [attempt EXCEPT ![w] = [NextAttempt(w) EXCEPT !.resumed = TRUE]])
  /\ UNCHANGED <<redis, apiKey, isRunning, closed, emptyQueueCount, counts,
                 streak, requeues, tracked, recorded, admits>>
  /\ UNCHANGED sweepVars

\* SIGINT/SIGTERM handler: stop() clears the flag and closes the queue.
Stop(w) ==
  /\ pc[w] \notin {"init", "exited"}
  /\ ~closed[w]
  /\ isRunning' = [isRunning EXCEPT ![w] = FALSE]
  /\ closed' = [closed EXCEPT ![w] = TRUE]
  /\ UNCHANGED <<redis, apiKey, pc, cur, property, emptyQueueCount, counts,
                 attempt, streak, requeues, tracked, recorded, admits>>
  /\ UNCHANGED sweepVars

\* SIGINT/SIGTERM handler: process.exit(0) once stop() has returned.
Exit(w) ==
  /\ closed[w]
  /\ pc[w] # "exited"
  /\ pc' = [pc EXCEPT ![w] = "exited"]
  /\ UNCHANGED <<redis, apiKey, isRunning, closed, cur, property,
                 emptyQueueCount, counts, attempt, streak, requeues, tracked, recorded, admits>>
  /\ UNCHANGED sweepVars

\* main(), after start() returned: the worker's stats, then getStats() of
\* the queue; a store error reaches the catch block of main and
\* process.exit(1); otherwise main returns, leaving the connection as it is.
Finish(w) ==
  /\ pc[w] = "stopped"
  /\ \E fault \in StoreFaults(w) :
       pc' = [pc EXCEPT ![w] = IF fault THEN "exited" ELSE "stopped"]
  /\ UNCHANGED <<redis, apiKey, isRunning, closed, cur, property,
                 emptyQueueCount, counts, attempt, streak, requeues, tracked,
                 recorded, admits>>
  /\ UNCHANGED sweepVars

WorkerStep(w) ==
  \/ Start(w)
  \/ Poll(w)
  \/ Stats(w)
  \/ IsProcessed(w)
  \/ Fetch(w)
  \/ MarkFailed(w)
  \/ HasChanged(w)
  \/ Send(w)
  \/ Store(w)
  \/ MarkProcessed(w)
  \/ Requeue(w)
  \/ Delay(w)
  \/ Backoff(w)
  \/ Stop(w)
  \/ Exit(w)
  \/ Finish(w)

\* The coordinator and every worker, all on the worker's namespace.
Next ==
  \/ QuintoAndarPushPage
  \/ \E w \in Workers : WorkerStep(w)

Spec == Init /\ [][Next]_vars

\* The coordinator and a single worker.
NextOneWorker ==
  \/ QuintoAndarPushPage
  \/ WorkerStep(1)

SpecOneWorker == InitOneWorker /\ [][NextOneWorker]_vars

\* The same, with the worker's event loop never starved.
SpecOneWorkerFair == SpecOneWorker /\ WF_vars(WorkerStep(1))

\* Both coordinators and a single worker, with the admissions observed.
NextAdmit ==
  \/ QuintoAndarPushPageObserved
  \/ ZillowQueueListing
  \/ WorkerStep(1)

SpecAdmit == Init /\ [][NextAdmit]_vars

\* The same, with the worker's event loop never starved.
SpecAdmitFair == SpecAdmit /\ WF_vars(WorkerStep(1))

\* A coordinator run after run, hours passing; no worker.
CoordStep ==
  \/ CoordLaunch
  \/ CoordLoop
  \/ ZillowPage
  \/ QuintoAndarFirstPage
  \/ QuintoAndarNextPage
  \/ CoordAfterLocation
  \/ CoordFinalStats
  \/ CoordFindMissing
  \/ CoordPushMissing

\* Between two runs, more hours pass than the staleness threshold.
BetweenRuns ==
  /\ coord.pc \in {"idle", "done", "aborted"}
  /\ Wait(hoursThreshold + 1)

NextSweep ==
  \/ CoordStep
  \/ BetweenRuns

SpecSweep == Init /\ [][NextSweep]_vars

\* Calls of generateGrid, for every cell size and bounding box.
InitGrid ==
  /\ InitStore
  /\ tracked = {}
  /\ now = 0
  /\ coord = NoRun
  /\ probe = NoProbe
  /\ grid \in GridCalls

NextGrid ==
  \/ GridOuter
  \/ GridInner
  \/ GridAgain

SpecGrid == InitGrid /\ [][NextGrid]_vars

\* Calls of findMissingProperties at hour MaxClock.
InitProbe ==
  /\ InitStore
  /\ tracked = {}
  /\ now = MaxClock
  /\ coord = NoRun
  /\ grid = NoGrid
  /\ probe \in ProbeCalls

SpecProbe == InitProbe /\ [][FindMissingProperties]_vars

\* The same, with the coordinator's event loop never starved.
SpecSweepFair == SpecSweep /\ WF_vars(CoordStep)

\* A city-based run of QuintoAndarCoordinator at its last city, the earlier
\* ones having reported no listing, with hours passing.
LastCity ==
  [NoRun EXCEPT !.mode = "cities", !.pc = "loop", !.loc = NumLocations,
                !.attempted = [k \in 1..(NumLocations - 1) |-> k]]

InitStale ==
  /\ InitStore
  /\ tracked = {}
  /\ now = 0
  /\ coord = LastCity
  /\ grid = NoGrid
  /\ probe = NoProbe

NextStale ==
  \/ CoordLoop
  \/ QuintoAndarFirstPage
  \/ QuintoAndarNextPage
  \/ CoordAfterLocation
  \/ CoordFinalStats
  \/ CoordFindMissing
  \/ CoordPushMissing
  \/ Tick

SpecStale == InitStale /\ [][NextStale]_vars

\* ------------------------------------------- ZillowCoordinator.discoverCity
MaxCityCalls == 2

\* The listings of a page that carry a zpid.
WithZpid(listings) ==
  Cardinality({k \in DOMAIN listings : listings[k] # NoId})

\* The addProperty calls of the loop over the listings of a page.
RECURSIVE addListingsCalls(_)
addListingsCalls(listings) ==
  IF listings = << >> THEN 0
  ELSE (IF Head(listings) = NoId THEN 0 ELSE 1) + addListingsCalls(Tail(listings))

\* Those of them that answered admitted=true.
RECURSIVE addListingsAdded(_, _)
addListingsAdded(q, listings) ==
  IF listings = << >> THEN 0
  ELSE IF Head(listings) = NoId THEN addListingsAdded(q, Tail(listings))
  ELSE (IF addPropertyAdmits(q, Head(listings)) THEN 1 ELSE 0)
       + addListingsAdded(addProperty(q, Head(listings)), Tail(listings))

\* while (page <= maxPages)
WithinPagesAndOne(page) == page <= maxPages + 1
WithinPages(page) == page <= maxPages

\* discoverAllCities / discoverSpecificCities: discoverCity is called.
CityCall ==
  /\ city.pc \in {"idle", "returned"}
  /\ city.calls < MaxCityCalls
  /\ city' = [NoCity EXCEPT
       !.pc = "page", !.calls = city.calls + 1, !.page = 1,
       !.totalDiscovered = city.totalDiscovered,
       !.totalQueued = city.totalQueued,
       !.createdAll = city.createdAll]
  /\ UNCHANGED <<redis, now, coord, grid, probe>>
  /\ UNCHANGED <<apiKey, pc, isRunning, closed, cur, property, emptyQueueCount,
                 counts, tracked, attempt, streak, requeues, recorded, admits,
                 verifier, retry>>

\* One turn of the loop of discoverCity: searchLocation, then addProperty for
\* the listings of the page in turn; the first k listings are gone through
\* when the turn ends, all of them unless an addProperty call raised.
CityPage ==
  /\ city.pc = "page"
  /\ IF ~WithinPages(city.page)
     THEN /\ city' = [city EXCEPT !.pc = "returned", !.stop = "ceiling",
                                  !.result = city.totalForCity]
          /\ UNCHANGED redis
     ELSE \E kind \in {"ok", "searchError"}, listings \in ZillowPages :
       IF kind = "searchError"
       THEN /\ city' = [city EXCEPT !.pc = "returned", !.stop = "error",
                                    !.requested = Append(@, city.page),
                                    !.result = 0]
            /\ UNCHANGED redis
       ELSE IF listings = << >>
       THEN /\ city' = [city EXCEPT !.pc = "returned", !.stop = "empty",
                                    !.requested = Append(@, city.page),
                                    !.result = city.totalForCity]
            /\ UNCHANGED redis
       ELSE \E k \in 0..Len(listings) :
         /\ k < Len(listings) => listings[k + 1] # NoId
         /\ LET done == SubSeq(listings, 1, k)
                calls == addListingsCalls(done)
                added == addListingsAdded(redis[ZillowPortal], done)
                all == k = Len(listings)
            IN /\ redis' = [redis EXCEPT ![ZillowPortal] = addListings(@, done)]
               /\ city' = [city EXCEPT
                    !.requested = Append(@, city.page),
                    !.listed = @ + WithZpid(listings),
                    !.admissions = @ + calls,
                    !.created = @ + added,
                    !.createdAll = @ + added,
                    !.owed = @ + WithZpid(listings) - calls,
                    !.totalForCity = @ + calls,
                    !.totalQueued = @ + calls,
                    !.totalDiscovered = IF all THEN @ + Len(listings) ELSE @,
                    !.page = IF all THEN @ + 1 ELSE @,
                    !.stop = IF all THEN "none" ELSE "error",
                    !.result = 0,
                    !.pc = IF all THEN "page" ELSE "returned"]
  /\ UNCHANGED <<now, coord, grid, probe>>
  /\ UNCHANGED <<apiKey, pc, isRunning, closed, cur, property, emptyQueueCount,
                 counts, tracked, attempt, streak, requeues, recorded, admits,
                 verifier, retry>>

\* Calls of discoverCity by one ZillowCoordinator.
InitCity ==
  /\ InitStore
  /\ tracked = {}
  /\ now = 0
  /\ coord = NoRun
  /\ grid = NoGrid
  /\ probe = NoProbe

NextCity ==
  \/ CityCall
  \/ CityPage

SpecCity == InitCity /\ [][NextCity]_vars

\* ------------------------------------------- ZillowScraperV2.retryWithBackoff
MaxRetryAttempts == 4
defaultRetryDelay == 1000

\* The delay slept after a failed attempt that is not the last one.
retryBackoffLinear(delay, k) == delay * k
retryBackoff(delay, k) == delay * 2^(k - 1)

\* An attempt of the loop: fn() is invoked and returns or raises.
RetryInvoke ==
  /\ retry.pc = "loop"
  /\ retry.attempt <= retry.retryAttempts
  /\ \/ \E r \in {"page", "other page"} :
          retry' = [retry EXCEPT !.invoked = @ + 1, !.result = r,
                                 !.pc = "returned"]
     \/ \E e \in {"timeout", "blocked"} :
          retry' = [retry EXCEPT
            !.invoked = @ + 1, !.lastError = e, !.errors = Append(@, e),
            !.attempt = IF retry.attempt < retry.retryAttempts THEN @ ELSE @ + 1,
            !.pc = IF retry.attempt < retry.retryAttempts THEN "sleep" ELSE "loop"]
  /\ UNCHANGED <<redis, now, coord, grid, probe, city>>
  /\ UNCHANGED <<apiKey, pc, isRunning, closed, cur, property, emptyQueueCount,
                 counts, tracked, attempt, streak, requeues, recorded, admits,
                 verifier>>

\* The sleep before the next attempt.
RetrySleep ==
  /\ retry.pc = "sleep"
  /\ retry' = [retry EXCEPT
       !.waits = Append(@, retryBackoff(retry.retryDelay, retry.attempt)),
       !.attempt = @ + 1, !.pc = "loop"]
  /\ UNCHANGED <<redis, now, coord, grid, probe, city>>
  /\ UNCHANGED <<apiKey, pc, isRunning, closed, cur, property, emptyQueueCount,
                 counts, tracked, attempt, streak, requeues, recorded, admits,
                 verifier>>

\* After the loop: throw lastError || new Error(...).
RetryThrow ==
  /\ retry.pc = "loop"
  /\ retry.attempt > retry.retryAttempts
  /\ retry' = [retry EXCEPT
       !.raised = IF retry.lastError # "none" THEN retry.lastError
                  ELSE "Failed after attempts",
       !.pc = "raised"]
  /\ UNCHANGED <<redis, now, coord, grid, probe, city>>
  /\ UNCHANGED <<apiKey, pc, isRunning, closed, cur, property, emptyQueueCount,
                 counts, tracked, attempt, streak, requeues, recorded, admits,
                 verifier>>

\* Calls of retryWithBackoff under every configuration.
InitRetry ==
  /\ InitIdle
  /\ \E n \in 0..MaxRetryAttempts, d \in {1, defaultRetryDelay} :
       retry = [NoRetry EXCEPT !.pc = "loop", !.attempt = 1,
                               !.retryAttempts = n, !.retryDelay = d]
  /\ tracked = {}
  /\ now = 0
  /\ coord = NoRun
  /\ grid = NoGrid
  /\ probe = NoProbe

NextRetry ==
  \/ RetryInvoke
  \/ RetrySleep
  \/ RetryThrow

SpecRetry == InitRetry /\ [][NextRetry]_vars

\* ================================================================ verifier

\* The Verifier's loop: the next id of the missing sub-queue is claimed.
VerifierClaim ==
  /\ verifier.pc = "poll"
  /\ Q.missing # << >>
  /\ verifier' = [NoVerifier EXCEPT !.pc = "refetch", !.cur = Head(Q.missing)]
  /\ redis' = [redis EXCEPT ![WorkerPortal] = popMissingId(@)]
  /\ UNCHANGED <<apiKey, pc, isRunning, closed, cur, property, emptyQueueCount,
                 counts, tracked, attempt, streak, requeues, recorded, admits,
                 now, coord, grid, probe, city, retry>>

\* The re-fetch through the Fetcher: the listing is found, is explicitly
\* reported not found, or the fetch fails.
VerifierRefetch ==
  /\ verifier.pc = "refetch"
  /\ \E answer \in {"found", "notfound", "error"} :
       verifier' = [verifier EXCEPT
         !.fetched = answer,
         !.pc = CASE answer = "found" -> "restore"
                  [] answer = "notfound" -> "signal"
                  [] OTHER -> "neither"]
  /\ UNCHANGED <<redis, apiKey, pc, isRunning, closed, cur, property,
                 emptyQueueCount, counts, tracked, attempt, streak, requeues,
                 recorded, admits, now, coord, grid, probe, city, retry>>

\* Found: restore to discovered.
VerifierRestore ==
  /\ verifier.pc = "restore"
  /\ redis' = [redis EXCEPT ![WorkerPortal] = restoreDiscovered(@, verifier.cur)]
  /\ verifier' = [verifier EXCEPT !.pc = "poll", !.done = "restored"]
  /\ UNCHANGED <<apiKey, pc, isRunning, closed, cur, property, emptyQueueCount,
                 counts, tracked, attempt, streak, requeues, recorded, admits,
                 now, coord, grid, probe, city, retry>>

\* sendToCoreService as markPropertyInactive calls it: nothing is sent
\* without an API key; with one the POST is delivered or raises.
InactiveSignals == IF apiKey THEN {"delivered", "raised"} ELSE {"skipped"}

\* Confirmed absent: markPropertyInactive(portal, id, country).
VerifierSignal ==
  /\ verifier.pc = "signal"
  /\ \E post \in InactiveSignals :
       verifier' = [verifier EXCEPT
         !.told = IF post = "delivered" THEN @ + 1 ELSE @,
         !.pc = IF post = "raised" THEN "neither" ELSE "inactive"]
  /\ UNCHANGED <<redis, apiKey, pc, isRunning, closed, cur, property,
                 emptyQueueCount, counts, tracked, attempt, streak, requeues,
                 recorded, admits, now, coord, grid, probe, city, retry>>

\* Confirmed absent: the transition to inactive.
VerifierMarkInactive ==
  /\ verifier.pc = "inactive"
  /\ redis' = [redis EXCEPT ![WorkerPortal] = markInactive(@, verifier.cur)]
  /\ verifier' = [verifier EXCEPT !.pc = "poll", !.done = "inactive"]
  /\ UNCHANGED <<apiKey, pc, isRunning, closed, cur, property, emptyQueueCount,
                 counts, tracked, attempt, streak, requeues, recorded, admits,
                 now, coord, grid, probe, city, retry>>

\* A failed re-fetch or signal: neither outcome, the id is verified again later.
VerifierNeither ==
  /\ verifier.pc = "neither"
  /\ redis' = [redis EXCEPT ![WorkerPortal] = returnToMissingQueue(@, verifier.cur)]
  /\ verifier' = [verifier EXCEPT !.pc = "poll", !.done = "neither"]
  /\ UNCHANGED <<apiKey, pc, isRunning, closed, cur, property, emptyQueueCount,
                 counts, tracked, attempt, streak, requeues, recorded, admits,
                 now, coord, grid, probe, city, retry>>

VerifierStep ==
  \/ VerifierClaim
  \/ VerifierRefetch
  \/ VerifierRestore
  \/ VerifierSignal
  \/ VerifierMarkInactive
  \/ VerifierNeither

\* A night passes: more hours than the staleness threshold.
Overnight == Wait(hoursThreshold + 1)

\* A city-based run of QuintoAndarCoordinator that has come to its
\* staleness sweep.
AtSweep ==
  [NoRun EXCEPT !.mode = "cities", !.pc = "findMissing",
                !.loc = NumLocations + 1,
                !.attempted = [k \in 1..NumLocations |-> k]]

InitLifecycle ==
  /\ InitStore
  /\ tracked = {}
  /\ now = 0
  /\ coord = AtSweep
  /\ grid = NoGrid
  /\ probe = NoProbe

\* Discovery, the staleness sweep, the Verifier and a worker on one
\* namespace.
NextLifecycle ==
  \/ QuintoAndarPushPage
  \/ Overnight
  \/ CoordFindMissing
  \/ CoordPushMissing
  \/ VerifierStep
  \/ WorkerStep(1)

SpecLifecycle == InitLifecycle /\ [][NextLifecycle]_vars

\* The event loop of a worker that no signal stops.
WorkerLoop(w) ==
  \/ Start(w)
  \/ Poll(w)
  \/ Stats(w)
  \/ IsProcessed(w)
  \/ Fetch(w)
  \/ MarkFailed(w)
  \/ HasChanged(w)
  \/ Send(w)
  \/ Store(w)
  \/ MarkProcessed(w)
  \/ Requeue(w)
  \/ Delay(w)
  \/ Backoff(w)

\* The store after the Verifier restored an id that still waited in the work
\* queue when the sweep found it stale: the id is queued twice.
Restored ==
  [EmptyEngine EXCEPT !.state[1] = "discovered", !.queue = <<1, 1>>,
                      !.lastSeenAt[1] = hoursThreshold + 1]

\* That state of SpecLifecycle, no worker started yet.
AfterRestore ==
  /\ redis = [p \in Portals |-> IF p = WorkerPortal THEN Restored ELSE EmptyEngine]
  /\ verifier = [NoVerifier EXCEPT !.cur = 1, !.fetched = "found",
                                   !.done = "restored"]
  /\ now = hoursThreshold + 1
  /\ coord = [AtSweep EXCEPT !.swept = TRUE, !.found = {1}, !.pushed = {1},
                             !.pc = "done"]

InitRace ==
  /\ AfterRestore
  /\ city = NoCity
  /\ retry = NoRetry
  /\ InitWorkers
  /\ tracked = {}
  /\ grid = NoGrid
  /\ probe = NoProbe

\* The workers sharing the namespace.
NextRace == \E w \in Workers : WorkerLoop(w)

SpecRace == InitRace /\ [][NextRace]_vars

\* The same, the event loop of no worker starved.
SpecRaceFair == SpecRace /\ \A w \in Workers : WF_vars(WorkerLoop(w))

\* ================================================================ claims

\* A worker is inside processListing with id i.
Holds(w, i) == pc[w] \in ProcessingPcs /\ cur[w] = i

InQueue(q, i) == \E k \in DOMAIN q.queue : q.queue[k] = i

\* C1: on every portal namespace, once admit was called for an id (whatever
\* the number of calls and whoever made them), exactly one of the calls
\* answered admitted=true and exactly one work-queue entry was created.
C1_AdmitExactlyOnce ==
  \A p \in Portals, i \in Ids :
    admits[p][i].calls >= 1 =>
      /\ admits[p][i].admitted = 1
      /\ admits[p][i].entries = 1

\* Both coordinators have offered the same id again and again; the worker's
\* namespace saw it MaxAdmitCalls times, also after it was claimed.
C1_Witness ==
  \E i \in Ids :
    /\ admits[QuintoAndarPortal][i].calls = MaxAdmitCalls
    /\ admits[QuintoAndarPortal][i].admitted = 1
    /\ admits[ZillowPortal][i].calls >= 2
    /\ admits[ZillowPortal][i].admitted = 1
    /\ redis[QuintoAndarPortal].state[i] \notin {"absent", "discovered"}

\* C2: an id is held by at most one worker at a time; while it is held it is
\* in the processing state and not visible on the work queue.
C2_SingleClaim ==
  \A i \in Ids :
    /\ Cardinality({w \in Workers : Holds(w, i)}) <= 1
    /\ \A w \in Workers :
         Holds(w, i) => Q.state[i] = "processing" /\ ~InQueue(Q, i)

\* One worker holds the id while another one has called popListingId and
\* got nothing.
C2_Witness ==
  \E i \in Ids, w, v \in Workers :
    /\ w # v
    /\ Holds(w, i)
    /\ pc[v] = "stats"
    /\ Len(requeues[i]) >= 1

\* C3: with the retry limit 3 passed by the worker, the first three
\* requeueWithRetry calls of an id answer true and the fourth answers false and
\* leaves the id failed; there is no fifth one, the failed id is neither on
\* the work queue nor held again, and retryCount never decreases.
C3_RetryCeilingState ==
  \A i \in Ids :
    /\ Len(requeues[i]) <= 4
    /\ \A k \in DOMAIN requeues[i] : requeues[i][k] = (k <= 3)
    /\ Q.retryCount[i] = Len(requeues[i])
    /\ Len(requeues[i]) = 4 =>
         /\ Q.state[i] = "failed"
         /\ ~InQueue(Q, i)
         /\ \A w \in Workers : ~Holds(w, i)

C3_RetryCountGrows ==
  \A i \in Ids : redis'[WorkerPortal].retryCount[i] >= Q.retryCount[i]

C4_TwoCycles ==
  \A w \in Workers :
    attempt[w].outcome = "processed" =>
      IF attempt[w].before # Digest(property[w])
      THEN attempt[w].changed /\ attempt[w].forwards = 1
      ELSE ~attempt[w].changed /\ attempt[w].forwards = 0

C8_NoErrorEscapes ==
  \A w \in Workers :
    /\ attempt[w].outcome # "escaped"
    /\ attempt[w].raised # "none" /\ attempt[w].outcome # "none" =>
         attempt[w].outcome \in {"requeued", "exhausted"}

\* C8 (amended): every error raised in the try block of processListing leads
\* to a requeueWithRetry call; when that call completes the id is queued or
\* failed and processListing returns; only an error of requeueWithRetry
\* itself leaves processListing, and then the id stays in processing.  (A
\* process exit of the signal handler can end the attempt at any point.)
C8_ErrorsReachRequeue ==
  \A w \in Workers :
    /\ attempt[w].raised # "none" /\ pc[w] \notin {"requeue", "exited"} =>
         "requeueWithRetry" \in attempt[w].calls
    /\ attempt[w].outcome = "requeued" =>
         /\ attempt[w].raised # "none"
         /\ Q.state[cur[w]] = "queued"
         /\ InQueue(Q, cur[w])
    /\ attempt[w].outcome = "exhausted" =>
         /\ attempt[w].raised # "none"
         /\ Q.state[cur[w]] = "failed"
    /\ attempt[w].outcome \in {"requeued", "exhausted"} =>
         pc[w] \in {"delay", "exited"}
    /\ attempt[w].outcome = "escaped" =>
         /\ attempt[w].raised # "none"
         /\ pc[w] \in {"backoff", "exited"}
         /\ Q.state[cur[w]] = "processing"

\* markProcessed raised and so did requeueWithRetry, on an open connection.
C8_Witness ==
  \E w \in Workers :
    /\ attempt[w].outcome = "escaped"
    /\ attempt[w].raised = "markProcessed"
    /\ pc[w] = "backoff"
    /\ ~closed[w]

\* C9: the empty count of the loop is the number of consecutive empty results
\* of popListingId, an id returned resets it, the loop is left through the
\* break exactly when that number is maxEmptyChecks, and when the queue
\* stays empty and the calls stop raising the loop terminates.
C9_StreakState ==
  \A w \in Workers :
    /\ emptyQueueCount[w] = streak[w]
    /\ streak[w] <= maxEmptyChecks
    /\ pc[w] \in ProcessingPcs => streak[w] = 0
    /\ pc[w] = "stopped" /\ isRunning[w] => streak[w] = maxEmptyChecks
    /\ streak[w] = maxEmptyChecks => pc[w] \in {"stopped", "exited"}

C9_Terminates ==
  \A w \in Workers :
    (<>[](Q.queue = << >>) /\ <>[](pc[w] \notin {"init", "backoff"}))
      => <>(pc[w] \in {"stopped", "exited"})

C9_EmptyStreak == [](C9_StreakState) /\ C9_Terminates

\* The loop was left through the break after ids had been processed.
C9_Witness ==
  \E w \in Workers :
    /\ pc[w] = "stopped"
    /\ isRunning[w]
    /\ streak[w] = maxEmptyChecks
    /\ counts[w].processedCount >= 1
    /\ counts[w].unchangedCount >= 1

\* C10: the catch block of start() leads back to the loop head (or to the
\* process exit of the signal handler, flag cleared), the loop is left only
\* with the flag cleared or through the empty-count break, and a worker in
\* its backoff gets back to the loop head.
C10_Step ==
  \A w \in Workers :
    /\ pc[w] = "backoff" /\ pc'[w] # "backoff" =>
         \/ pc'[w] = "poll" /\ isRunning'[w] = isRunning[w]
         \/ pc'[w] = "exited" /\ ~isRunning[w]
    /\ pc[w] # "stopped" /\ pc'[w] = "stopped" =>
         /\ pc[w] = "poll"
         /\ ~isRunning[w] \/ emptyQueueCount'[w] >= maxEmptyChecks

C10_LoopResumes ==
  /\ [][C10_Step]_vars
  /\ \A w \in Workers : (pc[w] = "backoff") ~> (pc[w] \in {"poll", "exited"})

\* After a backoff the worker, still running, has claimed an id again.
C10_Witness ==
  \E w \in Workers :
    /\ attempt[w].resumed
    /\ pc[w] = "isProcessed"
    /\ isRunning[w]
    /\ cur[w] # NoId

\* C11 (as stated): the connection of a worker is never released, and its
\* process never ends, while it holds a claimed id: at the exit no id it
\* claimed is left in the processing state.
C11_NoClaimAbandoned ==
  \A w \in Workers :
    /\ closed[w] => pc[w] \notin ProcessingPcs
    /\ pc[w] = "exited" /\ cur[w] # NoId => Q.state[cur[w]] # "processing"

\* C12 (as stated): no worker goes on for ever with claim calls that raise;
\* it terminates.
C12_TerminatesWhenUnreachable ==
  \A w \in Workers : []<>(pc[w] \notin {"poll", "backoff"})

\* C12 (amended): a claim call that raises changes neither the running flag
\* nor the empty count nor the store and leads to the backoff; the loop ends
\* with the flag set only on an empty result; and a running worker in its
\* backoff polls again.
C12_Step ==
  \A w \in Workers :
    /\ pc[w] = "poll" /\ pc'[w] = "backoff" =>
         /\ isRunning'[w] = isRunning[w]
         /\ emptyQueueCount'[w] = emptyQueueCount[w]
         /\ redis' = redis
    /\ pc[w] # "stopped" /\ pc'[w] = "stopped" /\ isRunning[w] =>
         streak'[w] = streak[w] + 1

C12_RetriesWhileUnreachable ==
  /\ [][C12_Step]_vars
  /\ \A w \in Workers :
       (pc[w] = "backoff" /\ isRunning[w]) ~> (pc[w] = "poll" \/ ~isRunning[w])

\* A second claim call in a row has raised and the worker is still running.
C12_Witness ==
  \E w \in Workers :
    /\ pc[w] = "backoff"
    /\ attempt[w].resumed
    /\ cur[w] = NoId
    /\ isRunning[w]
    /\ ~closed[w]

\* C13 (as stated): every step that takes an id out of processing (to processed, failed or
\* queued) is made by the one worker that holds it, which stops holding it in
\* that step, while no other worker holds it or moves.
C13_Step ==
  \A i \in Ids :
    redis'[WorkerPortal].state[i] # Q.state[i]
      /\ redis'[WorkerPortal].state[i] \in {"processed", "failed", "queued"} =>
        /\ Q.state[i] = "processing"
        /\ \E w \in Workers :
             /\ Holds(w, i)
             /\ pc'[w] = "delay"
             /\ \A v \in Workers \ {w} : ~Holds(v, i) /\ pc'[v] = pc[v]

\* The workers about to issue markFailed, markProcessed or requeueWithRetry
\* on id i.
Reporting(i) ==
  {w \in Workers :
     cur[w] = i /\ pc[w] \in {"markFailed", "markProcessed", "requeue"}}

C13_ClaimState ==
  \A i \in Ids :
    /\ Cardinality(Reporting(i)) <= 1
    /\ Reporting(i) # {} => Q.state[i] = "processing" /\ ~InQueue(Q, i)

C13_LinearTransitions == [](C13_ClaimState) /\ [][C13_Step]_vars

\* An id requeued by one worker is now held by another one.
C13_Witness ==
  \E i \in Ids, w, v \in Workers :
    /\ w # v
    /\ cur[w] = i
    /\ pc[w] = "delay"
    /\ Holds(v, i)
    /\ Len(requeues[i]) >= 1

\* ---------------------------------------------------------------- C14
InLocation == coord.pc \in {"zpage", "firstPage", "nextPage"}

C14_InOrder ==
  /\ coord.attempted = [k \in 1..Len(coord.attempted) |-> k]
  /\ coord.pc \in {"zpage", "firstPage", "nextPage", "afterLocation"}
       => Len(coord.attempted) = coord.loc
  /\ coord.pc \in {"finalStats", "findMissing", "pushMissing", "done"}
       => Len(coord.attempted) = NumLocations

C14_Step ==
  InLocation =>
    /\ coord'.pc \in {coord.pc, "nextPage", "afterLocation"}
    /\ coord'.attempted = coord.attempted
    /\ coord'.loc = coord.loc

\* C14: a discovery failure on one location never aborts the sweep: the
\* locations are attempted one at a time, each exactly once and in list
\* order; whatever the discovery of a location does, failing or not, the run
\* goes on to the rest of the loop body; and a run that has started comes to
\* the end of the list, unless a store error of the progress report, which is
\* no part of the discovery of a location, ends it.
C14_SweepNeverAborted ==
  /\ [](C14_InOrder)
  /\ [][C14_Step]_vars
  /\ InLocation ~> (coord.pc = "afterLocation")
  /\ (coord.pc = "loop")
       ~> (Len(coord.attempted) = NumLocations \/ coord.pc = "aborted")

\* A run ended after every location was attempted, one of them having failed.
C14_Witness ==
  /\ coord.pc = "done"
  /\ coord.failed
  /\ Len(coord.attempted) = NumLocations

\* ---------------------------------------------------------------- C15
\* C15: the number of page requests issued for one location never exceeds
\* the maximum page count, whatever total the discovery feed reports.
C15_PageCeiling == coord.requests <= maxPages

\* ---------------------------------------------------------------- C19
\* C19: every run of a coordinator that ended its discovery sweep, by cities
\* or by grid cells, has called findMissingProperties and has pushed to the
\* missing queue exactly the ids it returned.
C19_SweepFollowed ==
  coord.pc = "done" => coord.swept /\ coord.pushed = coord.found

\* ---------------------------------------------------------------- C20
Recent(i) == coord.seen[i] >= 0 /\ now - coord.seen[i] <= hoursThreshold

C20_Step ==
  coord.pc = "findMissing" /\ coord'.swept =>
    \A i \in Ids : Recent(i) => i \notin coord'.found

C20_Pushed ==
  /\ coord.pushed \subseteq coord.found
  /\ \A k \in DOMAIN redis[QuintoAndarPortal].missing :
       redis[QuintoAndarPortal].missing[k] \in coord.found

Squares(b) ==
  {<<x, y>> : x \in b.west..(b.east - 1), y \in b.south..(b.north - 1)}

\* The cells whose viewport holds the square.
CellsOver(cells, sq) ==
  {k \in DOMAIN cells :
     /\ cells[k].viewport.west <= sq[1] /\ sq[1] + 1 <= cells[k].viewport.east
     /\ cells[k].viewport.south <= sq[2] /\ sq[2] + 1 <= cells[k].viewport.north}

Within(c, b) ==
  /\ b.south <= c.viewport.south /\ c.viewport.north <= b.north
  /\ b.west <= c.viewport.west /\ c.viewport.east <= b.east

C17_Total ==
  /\ grid.pc \notin {"idle", "returned"} => Len(grid.cells) < MaxCells
  /\ grid.pc = "returned" =>
       /\ \A sq \in Squares(grid.bounds) : CellsOver(grid.cells, sq) # {}
       /\ \A k \in DOMAIN grid.cells : Within(grid.cells[k], grid.bounds)

\* ---------------------------------------------------------------- C18
Age(i) == now - probe.store.lastSeenAt[i]

C26_Step ==
  \A w \in Workers :
    ( /\ pc[w] = "poll"
      /\ \/ pc'[w] \in {"isProcessed", "stats", "backoff"}
         \/ pc'[w] = "stopped" /\ streak'[w] # streak[w] )
    => isRunning[w]

\* C26: once stop() has cleared the running flag it stays cleared, and every
\* step of the loop that calls popListingId is taken with the flag still set:
\* no claim call is issued after the stop flag was set.
C26_NoClaimAfterStop ==
  /\ [](\A w \in Workers : closed[w] => ~isRunning[w])
  /\ [][C26_Step]_vars

\* A worker that was stopped has left the loop at its head, before the empty
\* streak reached its limit.
C26_Witness ==
  \E w \in Workers :
    /\ closed[w]
    /\ pc[w] = "stopped"
    /\ streak[w] < maxEmptyChecks

\* ---------------------------------------------------------------- C28
\* C28: in every configuration, a processing attempt that has updated the
\* snapshot of its id, or has marked it processed as changed, has had its
\* payload delivered to the Sink earlier in the same attempt.
C28_ForwardBeforeUpdate ==
  \A w \in Workers :
    \/ attempt[w].updated
    \/ attempt[w].outcome = "processed" /\ attempt[w].changed
    => attempt[w].forwards >= 1

\* ---------------------------------------------------------------- C29
ForwardFailed(w) == attempt[w].raised = "sendToCoreService"

C29_State ==
  \A w \in Workers :
    ForwardFailed(w) =>
      /\ Q.snapshotHash[cur[w]] = attempt[w].before
      /\ Q.state[cur[w]] # "processed"
      /\ hasPropertyChanged(Q, cur[w], property[w])
      /\ ~attempt[w].updated
      /\ attempt[w].outcome \notin {"processed", "skipped", "notfound"}
      /\ attempt[w].outcome # "none" => "requeueWithRetry" \in attempt[w].calls

C29_Step ==
  /\ \A w \in Workers :
       pc[w] = "send" /\ attempt'[w].raised = "sendToCoreService" =>
         pc'[w] = "requeue" /\ redis' = redis
  /\ \A i \in Ids :
       Q'.snapshotHash[i] # Q.snapshotHash[i] =>
         \E w \in Workers : pc[w] = "store" /\ cur[w] = i

\* C29: when the forward of a changed payload raises, the attempt goes to
\* requeueWithRetry with the stored snapshot and the state of the id as they
\* were, the id is not marked processed by that attempt, and the snapshot
\* only ever changes in a snapshot write of the holder: a later change
\* detection on the same payload still reports changed=true.
C29_NoChangeLost == [](C29_State) /\ [][C29_Step]_vars

\* A forward raised and the id was put back on the work queue.
C29_Witness ==
  \E w \in Workers :
    /\ ForwardFailed(w)
    /\ attempt[w].outcome = "requeued"
    /\ attempt[w].changed
    /\ InQueue(Q, cur[w])

\* ---------------------------------------------------------------- C27
\* C27: every id admitted by the Zillow coordinator is eventually returned
\* by a claim of a worker, which moves it to processing in the namespace it
\* was admitted to.
C27_ZillowIdsClaimed ==
  \A i \in Ids :
    (redis[ZillowPortal].state[i] = "discovered")
      ~> (redis[ZillowPortal].state[i] = "processing")

\* ---------------------------------------------------------------- C23
C23_Step ==
  \A i \in Ids :
    ( /\ Q.state[i] \in {"processed", "failed"}
      /\ admits'[WorkerPortal][i].calls > admits[WorkerPortal][i].calls )
    =>
      /\ admits'[WorkerPortal][i].admitted = admits[WorkerPortal][i].admitted
      /\ Occurrences(Q'.queue, i) = Occurrences(Q.queue, i)
      /\ Q'.state[i] = Q.state[i]
      /\ Q'.retryCount[i] = Q.retryCount[i]

\* C23: an admission of an id that is processed or terminally failed answers
\* admitted=false and leaves the work queue, the state of the id and its
\* retryCount as they were; ids in those states are never on the work queue.
C23_NoReadmission ==
  /\ [][C23_Step]_vars
  /\ [](\A i \in Ids : Q.state[i] \in {"processed", "failed"} => ~InQueue(Q, i))

\* Discovery has returned an id again after its retries were exhausted.
C23_Witness ==
  \E i \in Ids :
    /\ Q.state[i] = "failed"
    /\ Q.retryCount[i] > WorkerMaxRetries
    /\ admits[WorkerPortal][i].late >= 1
    /\ admits[WorkerPortal][i].admitted = 1

\* ---------------------------------------------------------------- C30
\* C30: no payload of an id is delivered to the Sink a second time, also
\* when the id is retried after the snapshot write or markProcessed failed.
C30_ForwardedAtMostOnce == \A w \in Workers : ~attempt[w].resent

\* ---------------------------------------------------------------- C24
\* C24: on every path on which the process of a worker ends (the queue
\* drained, a fatal error, a stop signal), the connection opened by
\* initialize() has been released by close() before.
C24_ClosedOnExit == \A w \in Workers : pc[w] = "exited" => closed[w]

\* C21: every id the Verifier took from the missing sub-queue ends in one of
\* two outcomes. A re-fetch that found the listing ends with the id
\* restored and no inactive signal sent; a re-fetch that reported not-found
\* and was not cut short by an error ends with the id inactive and the Sink
\* told exactly once; a fetch error ends in neither, with no signal sent.
C21_TwoOutcomes ==
  verifier.done # "none" =>
    /\ verifier.fetched = "found" => (verifier.done = "restored" /\ verifier.told = 0)
    /\ verifier.fetched = "error" => (verifier.done = "neither" /\ verifier.told = 0)
    /\ verifier.done = "inactive" => (verifier.fetched = "notfound" /\ verifier.told = 1)
    /\ verifier.done = "neither" => verifier.told = 0

\* C22: a step that takes an id out of inactive is a discovery admission and
\* leaves the id discovered: no worker, Verifier or sweep step does it.
C22_Step ==
  \A i \in Ids :
    (Q.state[i] = "inactive" /\ Q'.state[i] # "inactive") =>
      /\ Q'.state[i] = "discovered"
      /\ InQueue(Q', i)
      /\ pc' = pc
      /\ verifier' = verifier
      /\ coord' = coord

C22_InactiveIsFinal == [][C22_Step]_vars

\* C25: a worker whose isProcessed check finds the claimed id processed
\* leaves processListing at once, or enters the catch block when the check
\* itself raised: it goes to no fetch, change detection, forward, snapshot
\* update or markFailed, and the step after it leads back to the next claim;
\* neither step touches the store.
C25_Step ==
  \A w \in Workers :
    /\ (pc[w] = "isProcessed" /\ isProcessed(Q, cur[w]) /\ pc'[w] # pc[w]) =>
         (pc'[w] \in {"delay", CatchBlock} /\ redis' = redis)
    /\ (pc[w] = "delay" /\ pc'[w] # pc[w]) =>
         (pc'[w] = "poll" /\ redis' = redis)

C25_SkipDoesNothing == [][C25_Step]_vars

\* A worker has claimed an id that another worker marked processed since.
C25_Witness ==
  \E w \in Workers :
    /\ pc[w] = "isProcessed"
    /\ isProcessed(Q, cur[w])
    /\ \E v \in Workers \ {w} : pc[v] = "delay" /\ cur[v] = cur[w]

\* The catch block of worker w could not reach the store: requeueWithRetry
\* raised and the error escaped processListing with id i.
C31_Escaped(w, i) == pc[w] = "backoff" /\ cur[w] = i

\* C31: unless the store ever fails the catch block of a worker holding the
\* id, an id in the processing state eventually is processed, failed or
\* queued, on every branch of processListing.
C31_ProcessingEnds ==
  \A i \in Ids :
    \/ <>(\E w \in Workers : C31_Escaped(w, i))
    \/ (Q.state[i] = "processing") ~>
         (Q.state[i] \in {"processed", "failed", "queued"})

\* Both workers are through with the same id, which is no longer processing.
C31_Witness ==
  \E i \in Ids :
    /\ Q.state[i] \in {"processed", "failed", "queued"}
    /\ \A w \in Workers : pc[w] = "delay" /\ cur[w] = i

\* C34 (as stated): whenever a worker is outside processListing its
\* processedCount equals changedCount + unchangedCount; no counter ever
\* decreases and no step adds more than 1 to processedCount.
C34_CountsState ==
  \A w \in tracked :
    pc[w] \notin ProcessingPcs =>
      counts[w].processedCount = counts[w].changedCount + counts[w].unchangedCount

C34_CountsStep ==
  \A w \in tracked :
    /\ counts'[w].processedCount \in
         {counts[w].processedCount, counts[w].processedCount + 1}
    /\ counts'[w].changedCount >= counts[w].changedCount
    /\ counts'[w].unchangedCount >= counts[w].unchangedCount
    /\ counts'[w].failedCount >= counts[w].failedCount

C34_CountersConsistent == [](C34_CountsState) /\ [][C34_CountsStep]_vars

\* Worker w drives an id to the terminal failed state in this step, by
\* markFailed or by a requeueWithRetry that answers false.
C35_DrivesToFailed(w) ==
  /\ pc[w] \in {"markFailed", "requeue"}
  /\ pc'[w] # pc[w]
  /\ Q.state[cur[w]] # "failed"
  /\ Q'.state[cur[w]] = "failed"

\* C35 (as stated): failedCount of a worker grows by one in exactly the steps
\* in which the worker drives an id to the terminal failed state, and in no
\* other step; a requeue does not count.
C35_Step ==
  \A w \in tracked :
    counts'[w].failedCount =
      counts[w].failedCount + (IF C35_DrivesToFailed(w) THEN 1 ELSE 0)

C35_FailuresCounted == [][C35_Step]_vars

\* The pages discoverCity has requested are 1, 2, ... in this order, at most
\* maxPages of them.
C32_InOrder ==
  /\ city.requested = [k \in 1..Len(city.requested) |-> k]
  /\ Len(city.requested) <= maxPages
  /\ city.pc = "page" => city.page = Len(city.requested) + 1

\* C32 (as stated): discoverCity requests the pages in increasing order,
\* ends only at the first empty page or after page 10, and every listing
\* with a zpid on a page it fetched was handed to one addProperty call.
C32_EveryListingAdmitted ==
  /\ C32_InOrder
  /\ city.pc = "returned" => city.stop \in {"empty", "ceiling"}
  /\ city.admissions = city.listed

\* C32 (amended): discoverCity requests the pages in increasing order and
\* ends at the first empty page, after page 10, or at the first
\* searchLocation or addProperty call that raises; the addProperty calls are
\* as many as the listings with a zpid on the pages fetched, less those no
\* call was issued for, which exist only when a call raised.
C32_State ==
  /\ C32_InOrder
  /\ city.pc = "returned" => city.stop \in {"empty", "ceiling", "error"}
  /\ city.stop = "ceiling" => Len(city.requested) = maxPages
  /\ city.admissions + city.owed = city.listed
  /\ city.stop # "error" => city.owed = 0

\* No page is requested after the stop.
C32_Step ==
  city.pc = "returned" =>
    \/ city'.requested = city.requested
    \/ city'.calls = city.calls + 1 /\ city'.requested = << >>

C32_PagesUntilStop == [](C32_State) /\ [][C32_Step]_vars

\* Ten pages were fetched, each with listings; every listing with a zpid was
\* handed to addProperty and some listing had none.
C32_Witness ==
  /\ city.pc = "returned"
  /\ city.stop = "ceiling"
  /\ Len(city.requested) = maxPages
  /\ city.admissions = city.listed
  /\ city.listed >= 1
  /\ city.listed < city.totalDiscovered

\* C33 (as stated): the count discoverCity returns is the number of its
\* admissions that answered admitted=true, totalQueued is the number of such
\* admissions of the coordinator, and totalQueued never exceeds
\* totalDiscovered.
C33_QueuedIsAdmitted ==
  /\ city.pc = "returned" => city.result = city.created
  /\ city.totalQueued = city.createdAll
  /\ city.totalQueued <= city.totalDiscovered

\* C36: retryWithBackoff invokes the operation at most retryAttempts times,
\* every invocation but the last one having raised; it returns with the
\* first success, and raises after retryAttempts failures the last error;
\* the k-th wait is retryDelay * 2^(k-1), there is one wait after every
\* failed attempt but the retryAttempts-th, and none after that one.
C36_Waits ==
  IF retry.retryAttempts = 0 THEN 0
  ELSE IF Len(retry.errors) < retry.retryAttempts THEN Len(retry.errors)
  ELSE retry.retryAttempts - 1

C36_State ==
  /\ retry.invoked <= retry.retryAttempts
  /\ retry.waits = [k \in 1..Len(retry.waits) |-> retry.retryDelay * 2^(k - 1)]
  /\ retry.pc = "sleep" =>
       /\ Len(retry.waits) = Len(retry.errors) - 1
       /\ Len(retry.errors) < retry.retryAttempts
  /\ retry.pc \in {"loop", "returned", "raised"} =>
       Len(retry.waits) = C36_Waits
  /\ retry.pc = "returned" =>
       /\ retry.invoked = Len(retry.errors) + 1
       /\ retry.result # "none"
       /\ retry.raised = "none"
  /\ retry.pc = "raised" =>
       /\ retry.invoked = retry.retryAttempts
       /\ Len(retry.errors) = retry.retryAttempts
       /\ retry.result = "none"
       /\ retry.retryAttempts >= 1 => retry.raised = retry.errors[Len(retry.errors)]
  /\ retry.pc \notin {"returned", "raised"} => retry.invoked = Len(retry.errors)

\* Nothing is invoked after the call has returned or raised.
C36_Step ==
  retry.pc \in {"returned", "raised"} => retry' = retry

\* C36: the bounds, results and waits above hold in every state of every
\* call of retryWithBackoff, and a call that has ended invokes nothing more.
C36_RetryWithBackoff == [](C36_State) /\ [][C36_Step]_vars

\* Four attempts have failed, with waits of 1, 2 and 4 seconds between them,
\* and the last error was raised.
C36_Witness ==
  /\ retry.pc = "raised"
  /\ retry.retryAttempts = 4
  /\ retry.invoked = 4
  /\ retry.waits = <<defaultRetryDelay, 2 * defaultRetryDelay, 4 * defaultRetryDelay>>
  /\ retry.errors = <<"timeout", "timeout", "timeout", "blocked">>
  /\ retry.raised = "blocked"

============================================================================
